---- MODULE Spec2Model ----
(***************************************************************************)
(* State-machine model of the user-management backend: the Express route   *)
(* pipeline (validate middleware -> controller -> UserService), the        *)
(* Mongoose User model (setters, pre-save and pre-find hooks, unique       *)
(* indexes) and the pagination helper.  Strings are sequences of           *)
(* one-character strings so that case conversion, slicing and matching are *)
(* computed the way the code computes them.  Every await on a store        *)
(* operation is one atomic step of the request that issued it; the         *)
(* synchronous code that follows it runs in the same step.                 *)
(***************************************************************************)
EXTENDS Integers, Sequences, FiniteSets, TLC

\* ------------------------------------------------------------------ bounds
MaxUsers == 2          \* records the store may hold
MaxVersion == 3        \* saves of an existing record, per record
NumSlots == 2          \* request handlers in flight at the same time
MaxQueryInt == 3       \* largest integer sent as ?page= or ?limit= to a listing

Slots == 1..NumSlots

\* --------------------------------------------------------------- characters
Digits == {"0", "1", "2", "3", "4", "5", "6", "7", "8", "9"}
UpperLetters ==
  <<"A", "B", "C", "D", "E", "F", "G", "H", "I", "J", "K", "L", "M",
    "N", "O", "P", "Q", "R", "S", "T", "U", "V", "W", "X", "Y", "Z">>
LowerLetters ==
  <<"a", "b", "c", "d", "e", "f", "g", "h", "i", "j", "k", "l", "m",
    "n", "o", "p", "q", "r", "s", "t", "u", "v", "w", "x", "y", "z">>
IsUpper(c) == \E i \in 1..Len(UpperLetters) : UpperLetters[i] = c
IsLower(c) == \E i \in 1..Len(LowerLetters) : LowerLetters[i] = c
IsDigit(c) == c \in Digits

toLowerChar(c) ==
  IF IsUpper(c)
    THEN LowerLetters[CHOOSE i \in 1..Len(UpperLetters) : UpperLetters[i] = c]
    ELSE c
toUpperChar(c) ==
  IF IsLower(c)
    THEN UpperLetters[CHOOSE i \in 1..Len(LowerLetters) : LowerLetters[i] = c]
    ELSE c

\* String.prototype.toLowerCase / toUpperCase
toLowerCase(s) == [i \in 1..Len(s) |-> toLowerChar(s[i])]
toUpperCase(s) == [i \in 1..Len(s) |-> toUpperChar(s[i])]

\* String.prototype.trim
RECURSIVE trimStart(_)
trimStart(s) == IF s # <<>> /\ Head(s) = " " THEN trimStart(Tail(s)) ELSE s
RECURSIVE trimEnd(_)
trimEnd(s) ==
  IF s # <<>> /\ s[Len(s)] = " " THEN trimEnd(SubSeq(s, 1, Len(s) - 1)) ELSE s
trim(s) == trimEnd(trimStart(s))

\* slice(n) for n >= 0: the characters from index n on.
sliceFrom(s, n) == SubSeq(s, n + 1, Len(s))

\* String.prototype.slice(-n): the last n characters (all of s when shorter)
sliceLast(s, n) == SubSeq(s, IF Len(s) > n THEN Len(s) - n + 1 ELSE 1, Len(s))

\* ------------------------------------------------------------ input values
EmailLower == <<"a", "@", "x", ".", "c", "o">>
EmailUpper == <<"A", "@", "x", ".", "c", "o">>
EmailOther == <<"b", "@", "x", ".", "c", "o">>

Aadhaar1 == <<"1", "2", "3", "4", "5", "6", "7", "8", "9", "0", "1", "2">>
Aadhaar2 == <<"9", "9", "9", "9", "9", "9", "9", "9", "9", "9", "9", "9">>

Pan1 == <<"A", "B", "C", "D", "E", "1", "2", "3", "4", "F">>
Pan2 == <<"Z", "Z", "Z", "Z", "Z", "9", "9", "9", "9", "Z">>

Name1 == <<"J", "o">>
Name2 == <<"A", "l">>

\* ------------------------------------------------------------- User model
\* A stored document.  Of the schema's paths the model keeps the ones the
\* service reads or writes by name; the other required strings pass through
\* every operation untouched.
NoDoc == [id |-> 0]

\* Schema setters run on assignment and on query filters (casting).
setName(v) == trim(v)
setEmail(v) == trim(toLowerCase(v))
setPan(v) == toUpperCase(v)

castPath(k, v) ==
  CASE k = "name" -> setName(v)
    [] k = "email" -> setEmail(v)
    [] k = "pan" -> setPan(v)
    [] OTHER -> v

\* new User(userData): setters applied to the paths given, the defaults of
\* isDeleted and version for the paths userData does not carry.
NewUser(userData) ==
  [name |-> castPath("name", userData.name),
   email |-> castPath("email", userData.email),
   aadhaar |-> userData.aadhaar,
   pan |-> castPath("pan", userData.pan),
   isDeleted |-> IF "isDeleted" \in DOMAIN userData THEN userData.isDeleted ELSE FALSE,
   version |-> IF "version" \in DOMAIN userData THEN userData.version ELSE 0]

MaskPrefixAadhaar == <<"X", "X", "X", "X", "-", "X", "X", "X", "X", "-">>
MaskPrefixPan == <<"X", "X", "X", "X", "X">>

\* userSchema.methods.maskSensitiveData
maskSensitiveData(user) ==
  [user EXCEPT
     !.aadhaar = IF user.aadhaar # <<>>
                   THEN MaskPrefixAadhaar \o sliceLast(user.aadhaar, 4) ELSE @,
     !.pan = IF user.pan # <<>>
               THEN MaskPrefixPan \o sliceLast(user.pan, 4) ELSE @]

\* --------------------------------------------------------------- errors
\* An error value: its class, the status its class carries (0 when the class
\* carries none) and the fields its message or issue list names.
AppError(name, statusCode, fields) ==
  [name |-> name, statusCode |-> statusCode, fields |-> fields]
NotFoundError == AppError("NotFoundError", 404, {})
ValidationError == AppError("ValidationError", 400, {"aadhaar", "pan"})
BadRequestError == AppError("BadRequestError", 400, {"aadhaar", "pan"})
ConflictError(field) == AppError("ConflictError", 409, {field})
ZodError(fields) == AppError("ZodError", 0, fields)
\* Mongoose's document validation error; errors names the invalid paths.
MongooseValidationError(fields) == AppError("MongooseValidationError", 0, fields)
\* The driver's E11000 duplicate key error; keyPattern names one index.
MongoServerError(field) == AppError("MongoServerError", 0, {field})

NoMeta ==
  [page |-> 0, limit |-> 0, total |-> 0, totalPages |-> 0,
   hasNext |-> FALSE, hasPrev |-> FALSE]

Response(status, error, fields, data, meta) ==
  [status |-> status, error |-> error, fields |-> fields,
   data |-> data, meta |-> meta]

\* The handler as it would be without its duplicate-key branch: E11000 falls
\* through to the default, 500.
errorHandlerWithoutDuplicateKey(error) ==
  IF error.name \in {"NotFoundError", "ValidationError", "ConflictError",
                     "BadRequestError"}
    THEN Response(error.statusCode, error.name, error.fields, <<>>, NoMeta)
  ELSE IF error.name \in {"ZodError", "MongooseValidationError"}
    THEN Response(400, error.name, error.fields, <<>>, NoMeta)
  ELSE Response(500, error.name, {}, <<>>, NoMeta)

\* errorHandler: the response an error ends in.
errorHandler(error) ==
  IF error.name \in {"NotFoundError", "ValidationError", "ConflictError",
                     "BadRequestError"}
    THEN Response(error.statusCode, error.name, error.fields, <<>>, NoMeta)
  ELSE IF error.name \in {"ZodError", "MongooseValidationError"}
    THEN Response(400, error.name, error.fields, <<>>, NoMeta)
  ELSE IF error.name = "MongoServerError"
    THEN Response(409, error.name, error.fields, <<>>, NoMeta)
  ELSE Response(500, error.name, {}, <<>>, NoMeta)

\* ------------------------------------------------------------ validators
Count(s, c) == Cardinality({i \in 1..Len(s) : s[i] = c})

\* z.string().email(): one "@", a local part, a dotted domain whose last
\* label has two letters or more, no blank.
isEmail(s) ==
  /\ Count(s, "@") = 1
  /\ Count(s, " ") = 0
  /\ LET at == CHOOSE i \in 1..Len(s) : s[i] = "@"
     IN  /\ at > 1
         /\ \E d \in (at + 2)..(Len(s) - 2) :
              /\ s[d] = "."
              /\ \A j \in (d + 1)..Len(s) : IsUpper(s[j]) \/ IsLower(s[j])

\* /^[0-9]{12}$/
isAadhaar(s) == Len(s) = 12 /\ \A i \in 1..Len(s) : IsDigit(s[i])

\* /^[A-Z]{5}[0-9]{4}[A-Z]{1}$/
isPan(s) ==
  /\ Len(s) = 10
  /\ \A i \in 1..5 : IsUpper(s[i])
  /\ \A i \in 6..9 : IsDigit(s[i])
  /\ IsUpper(s[10])

\* The validators of userSchema, run by save() on the document's values
\* after the setters: required, minlength and maxlength of name, match of
\* email (/^\S+@\S+\.\S+$/), aadhaar and pan.  The invalid paths.
schemaValidate(doc) ==
  {k \in {"name", "email", "aadhaar", "pan"} :
     \/ doc[k] = <<>>
     \/ k = "name" /\ (Len(doc[k]) < 2 \/ Len(doc[k]) > 100)
     \/ k = "email" /\ ~ /\ Count(doc[k], " ") = 0
                         /\ \E at \in 2..Len(doc[k]), d \in 4..(Len(doc[k]) - 1) :
                              doc[k][at] = "@" /\ doc[k][d] = "." /\ d >= at + 2
     \/ k = "aadhaar" /\ ~isAadhaar(doc[k])
     \/ k = "pan" /\ ~isPan(doc[k])}

Has(body, k) == k \in DOMAIN body

\* createUserSchema.parse: the fields with an issue.  Checks run on the value
\* as sent; the schema's trim and case transforms follow them.
createUserSchema(body) ==
  {k \in {"name", "email", "aadhaar", "pan"} :
     \/ ~Has(body, k)
     \/ k = "name" /\ (Len(body[k]) < 2 \/ Len(body[k]) > 100)
     \/ k = "email" /\ ~isEmail(body[k])
     \/ k = "aadhaar" /\ ~isAadhaar(body[k])
     \/ k = "pan" /\ ~isPan(body[k])}

MutableKeys == {"name", "email"}

\* The update schema as it would be without .strict(): unknown keys pass.
updateUserSchemaStripping(body) ==
  {k \in DOMAIN body :
     \/ k \in {"aadhaar", "pan"}
     \/ k = "name" /\ (Len(body[k]) < 2 \/ Len(body[k]) > 100)
     \/ k = "email" /\ ~isEmail(body[k])}

\* updateUserSchema.parse: every key is optional, aadhaar and pan are
\* z.never(), and .strict() rejects the keys the schema does not list.
updateUserSchema(body) ==
  {k \in DOMAIN body :
     \/ k \notin MutableKeys
     \/ k = "name" /\ (Len(body[k]) < 2 \/ Len(body[k]) > 100)
     \/ k = "email" /\ ~isEmail(body[k])}

\* A JavaScript string is truthy unless empty; a missing key reads undefined.
Truthy(body, k) == Has(body, k) /\ body[k] # <<>>

\* validate(schema): the error passed to next(), or NoError.
NoError == AppError("none", 0, {})
validate(method, issues, body) ==
  IF method = "PUT" /\ (Truthy(body, "aadhaar") \/ Truthy(body, "pan"))
    THEN ValidationError
  ELSE IF issues # {} THEN ZodError(issues)
  ELSE NoError

\* ------------------------------------------------------------ pagination
\* A query-string value: absent, a string that is no number, or an integer.
Absent == [kind |-> "absent", val |-> 0]
NotANumber == [kind |-> "text", val |-> 0]
IntParam(n) == [kind |-> "int", val |-> n]

\* req.query.q: absent, a string, or an array of strings (q given twice).
NoTerm == [kind |-> "absent", val |-> <<>>]
Term(s) == [kind |-> "string", val |-> s]
TermArray == [kind |-> "array", val |-> <<>>]

\* parseInt: NaN for undefined and for a string with no leading number.
parseInt(raw) == [nan |-> raw.kind # "int", val |-> raw.val]
\* a || b on a number: NaN and 0 are falsy.
OrElse(n, default) == IF n.nan \/ n.val = 0 THEN default ELSE n.val
Max(a, b) == IF a >= b THEN a ELSE b
Min(a, b) == IF a <= b THEN a ELSE b

DefaultPage == 1
DefaultLimit == 10
MaxLimit == 100

\* PaginationHelper.parsePaginationParams
parsePaginationParams(query) ==
  [page |-> Max(1, OrElse(parseInt(query.page), DefaultPage)),
   limit |-> Min(MaxLimit, Max(1, OrElse(parseInt(query.limit), DefaultLimit)))]

\* PaginationHelper.calculateSkip
calculateSkip(page, limit) == (page - 1) * limit

\* Math.ceil(a / b) for a >= 0, b >= 1
Ceil(a, b) == IF a % b = 0 THEN a \div b ELSE (a \div b) + 1

\* PaginationHelper.generateMeta
generateMeta(page, limit, total) ==
  [page |-> page, limit |-> limit, total |-> total,
   totalPages |-> Ceil(total, limit),
   hasNext |-> page < Ceil(total, limit),
   hasPrev |-> page > 1]

\* req.query.sort: absent or a string.
NoSort == [kind |-> "absent", val |-> <<>>]
SortParam(s) == [kind |-> "string", val |-> s]

allowedFields ==
  {<<"c", "r", "e", "a", "t", "e", "d", "A", "t">>,
   <<"u", "p", "d", "a", "t", "e", "d", "A", "t">>,
   <<"n", "a", "m", "e">>, <<"e", "m", "a", "i", "l">>}
DefaultSort == <<"-", "c", "r", "e", "a", "t", "e", "d", "A", "t">>

\* A helper that returns whatever sort string it is given.
parseSortUnchecked(sortQuery) ==
  IF sortQuery.kind = "absent" \/ sortQuery.val = <<>> THEN DefaultSort
  ELSE sortQuery.val
\* PaginationHelper.parseSortParam
parseSortParam(sortQuery) ==
  IF sortQuery.kind = "absent" \/ sortQuery.val = <<>> THEN DefaultSort
  ELSE LET sortField == IF Head(sortQuery.val) = "-"          \* startsWith('-')
                          THEN Tail(sortQuery.val)           \* substring(1)
                          ELSE sortQuery.val
       IN  IF sortField \notin allowedFields THEN DefaultSort ELSE sortQuery.val

\* ------------------------------------------------------------------ state
VARIABLES
  users,   \* the collection: a sequence of documents, _id = index, in creation order
  reqs,    \* per handler slot: the request in flight there and its position
  sent     \* the request the last step completed, with its outcome (Idle: none)
vars == <<users, reqs, sent>>

Ids == 1..Len(users)
\* The hydrated document with _id i.
Doc(i) == [id |-> i, name |-> users[i].name, email |-> users[i].email,
           aadhaar |-> users[i].aadhaar, pan |-> users[i].pan,
           isDeleted |-> users[i].isDeleted, version |-> users[i].version]

EmptyBody == [k \in {} |-> <<>>]
NoQuery == [page |-> Absent, limit |-> Absent, q |-> NoTerm]
NoResponse == Response(0, "none", {}, <<>>, NoMeta)

\* A request as it arrives.  The fields from acc on record what the request
\* did and met; no step of the program reads them.
\*   acc      store operations the request has completed
\*   ins      _id of the document it inserted (0: none)
\*   coll     identity fields on which its payload met a stored document, at
\*            its last store operation; delColl: a soft-deleted one
\*   rivals   creates with the same email that passed the pre-check while this
\*            one had passed it and not yet saved; raced: there was one;
\*            lost: one of them has stored its document
\*   gone     the target was soft-deleted when the request arrived
\*   dirty    a write reached the store while the listing was in flight
Request(op, via, id, body, query) ==
  [pc |-> "start", op |-> op, via |-> via, id |-> id, body |-> body,
   query |-> query, doc |-> NoDoc, res |-> NoResponse,
   rows |-> <<>>, rowsDone |-> FALSE, total |-> 0, totalDone |-> FALSE,
   acc |-> 0, ins |-> 0, coll |-> {}, delColl |-> {},
   rivals |-> {}, raced |-> FALSE, lost |-> FALSE,
   gone |-> id \in Ids /\ users[id].isDeleted, dirty |-> FALSE]

Idle ==
  [Request("none", "none", 0, EmptyBody, NoQuery) EXCEPT !.pc = "idle", !.gone = FALSE]

Busy(r) == reqs[r].pc # "idle"
\* Handler slots are interchangeable: a request takes the lowest idle one.
Free(r) == ~Busy(r) /\ \A s \in 1..(r - 1) : Busy(s)
Done(rq, res) == [rq EXCEPT !.pc = "done", !.res = res]

\* What the step of slot r, which leaves its request as rq, records in the
\* request of another slot s.
Seen(s, r, rq, wrote) ==
  LET a == IF wrote /\ reqs[s].op \in {"list", "search"}
             THEN [reqs[s] EXCEPT !.dirty = TRUE] ELSE reqs[s]
  IN  IF rq.pc = "save" /\ s \in rq.rivals /\ r \notin a.rivals
        THEN [a EXCEPT !.rivals = @ \cup {r}, !.raced = TRUE]
      ELSE IF rq.pc = "done" /\ r \in a.rivals
        THEN [a EXCEPT !.rivals = @ \ {r}, !.lost = @ \/ rq.ins # 0]
      ELSE a

\* The step of slot r ends with its request as rq: in flight, or completed
\* and sent (the slot is idle again).
Commit(r, rq, wrote) ==
  /\ reqs' = [s \in Slots |->
                IF s = r THEN (IF rq.pc = "done" THEN Idle ELSE rq)
                ELSE Seen(s, r, rq, wrote)]
  /\ sent' = IF rq.pc = "done" THEN rq ELSE Idle

\* ---------------------------------------------------------- store queries
\* A schema without the pre-find hook: the filter goes to the store as given.
withoutPreFind(isDeletedCond) == isDeletedCond

\* userSchema.pre(/^find/): find, findOne and findById get isDeleted: false
\* unless the filter names isDeleted.  A filter's isDeleted part is
\* "undefined", "false" or "true".
preFind(isDeletedCond) ==
  IF isDeletedCond = "undefined" THEN "false" ELSE isDeletedCond

matchesIsDeleted(isDeletedCond, doc) ==
  \/ isDeletedCond = "undefined"
  \/ isDeletedCond = "false" /\ ~doc.isDeleted
  \/ isDeletedCond = "true" /\ doc.isDeleted

\* User.findById(id): the ids it can return (none or one).
findById(id) ==
  {i \in Ids : i = id /\ matchesIsDeleted(preFind("undefined"), users[i])}

\* User.findOne({$or: [{email}, {aadhaar}, {pan}]}): the documents that match.
findOneByIdentity(userData) ==
  {i \in Ids :
     /\ matchesIsDeleted(preFind("undefined"), users[i])
     /\ \/ users[i].email = castPath("email", userData.email)
        \/ users[i].aadhaar = castPath("aadhaar", userData.aadhaar)
        \/ users[i].pan = castPath("pan", userData.pan)}

\* User.findOne({email}): the documents that match.
findOneByEmail(email) ==
  {i \in Ids :
     /\ matchesIsDeleted(preFind("undefined"), users[i])
     /\ users[i].email = castPath("email", email)}

\* A collection without unique indexes: no write is rejected.
withoutUniqueIndex(doc, self) == {}

\* The unique indexes on email, aadhaar and pan cover every document: the
\* indexes a write of doc as _id self would violate.
uniqueViolations(doc, self) ==
  {f \in {"email", "aadhaar", "pan"} :
     \E i \in Ids : i # self /\ users[i][f] = doc[f]}

\* The identity fields on which a create payload meets the documents of S.
Collisions(userData, S) ==
  {f \in {"email", "aadhaar", "pan"} :
     \E i \in S : users[i][f] = castPath(f, userData[f])}
Met(rq) ==
  [rq EXCEPT !.acc = @ + 1,
             !.coll = Collisions(rq.body, Ids),
             !.delColl = Collisions(rq.body, {i \in Ids : users[i].isDeleted})]

\* ------------------------------------------------------------ controllers
\* What a handler sends once the service call resolved; a call made on the
\* service itself (via = "service") returns the service's value as it is.
Success(status, data, meta) == Response(status, "none", {}, data, meta)

\* A handler whose masking throws once the service has stored the document.
createUserControllerThrowing(user) == errorHandler(AppError("TypeError", 0, {}))
createUserController(user) == Success(201, <<maskSensitiveData(user)>>, NoMeta)
updateUserController(user) == Success(200, <<maskSensitiveData(user)>>, NoMeta)
\* A handler that sends the document as the service returned it.
sendUnmasked(user) == Success(200, <<user>>, NoMeta)
getUserByIdController(user) == Success(200, <<maskSensitiveData(user)>>, NoMeta)
deleteUserController == Success(200, <<>>, NoMeta)
ServiceReturn(user) == Success(200, <<user>>, NoMeta)

\* ------------------------------------------------------------ createUser
ShortAadhaar == <<"1", "2">>
Body(email, aadhaar, pan) ==
  [name |-> Name1, email |-> email, aadhaar |-> aadhaar, pan |-> pan]
\* A first payload; one that shares nothing with it; one for each identity
\* field that shares that field alone with the first; one that is invalid.
CreateBodies ==
  {Body(EmailLower, Aadhaar1, Pan1), Body(EmailOther, Aadhaar2, Pan2),
   Body(EmailUpper, Aadhaar2, Pan2), Body(EmailOther, Aadhaar1, Pan2),
   Body(EmailOther, Aadhaar2, Pan1), Body(EmailLower, ShortAadhaar, Pan1)}

CreatesInFlight == Cardinality({s \in Slots : reqs[s].op = "create"})

\* POST /users arrives: validate(createUserSchema), then the controller calls
\* the service, which issues its findOne.
StartCreate(r, body) ==
  /\ Free(r)
  /\ Len(users) + CreatesInFlight < MaxUsers
  /\ LET rq == Request("create", "http", 0, body, NoQuery)
         error == validate("POST", createUserSchema(body), body)
     IN  Commit(r, IF error # NoError THEN Done(rq, errorHandler(error))
                   ELSE [rq EXCEPT !.pc = "precheck"], FALSE)
  /\ UNCHANGED users

\* A service that reports every match of the pre-check as an email conflict.
conflictOnEmail(existingUser, userData) == ConflictError("email")

\* The conflict createUser reports for the document findOne returned.
createConflict(existingUser, userData) ==
  IF existingUser.email = userData.email THEN ConflictError("email")
  ELSE IF existingUser.aadhaar = userData.aadhaar THEN ConflictError("aadhaar")
  ELSE IF existingUser.pan = userData.pan THEN ConflictError("pan")
  ELSE NoError

\* The creates that passed the pre-check with the same email and wait to save.
Racing(r) ==
  {s \in Slots \ {r} :
     /\ reqs[s].op = "create" /\ reqs[s].pc = "save"
     /\ castPath("email", reqs[s].body.email) = castPath("email", reqs[r].body.email)}

\* await User.findOne({$or: ...}).lean() resolves; no sort is given, so any
\* matching document may be the one returned.
CreatePrecheck(r) ==
  /\ reqs[r].op = "create" /\ reqs[r].pc = "precheck"
  /\ LET rq == Met(reqs[r])
         found == findOneByIdentity(rq.body)
     IN  \E i \in (IF found = {} THEN {0} ELSE found) :
           LET error == IF i = 0 THEN NoError ELSE createConflict(Doc(i), rq.body)
           IN  Commit(r, IF error # NoError THEN Done(rq, errorHandler(error))
                         ELSE [reqs[r] EXCEPT !.acc = @ + 1, !.pc = "save",
                                              !.rivals = Racing(r),
                                              !.raced = Racing(r) # {}], FALSE)
  /\ UNCHANGED users

\* await user.save() of the new document resolves: the validation error of
\* the schema, or the insert, or E11000 from one of the unique indexes it
\* violates.
CreateSave(r) ==
  /\ reqs[r].op = "create" /\ reqs[r].pc = "save"
  /\ LET rq == Met(reqs[r])
         user == NewUser(rq.body)
         invalid == schemaValidate(user)
         dup == uniqueViolations(user, 0)
     IN  IF invalid # {}
           THEN /\ Commit(r, Done(rq, errorHandler(MongooseValidationError(invalid))), FALSE)
                /\ UNCHANGED users
         ELSE IF dup # {}
           THEN /\ \E f \in dup : Commit(r, Done(rq, errorHandler(MongoServerError(f))), FALSE)
                /\ UNCHANGED users
           ELSE /\ users' = Append(users, user)
                /\ Commit(r, Done([rq EXCEPT !.ins = Len(users) + 1],
                                  createUserController([id |-> Len(users) + 1] @@ user)), TRUE)

\* A service that takes every stored document, soft-deleted or not, as found.
foundWhenStored(id) == id \notin Ids
\* if (!user || user.isDeleted), user being what findById returned
notFound(id) == findById(id) = {} \/ users[id].isDeleted

\* ----------------------------------------------------------- getUserById
StartGet(r, id) ==
  /\ Free(r)
  /\ Commit(r, [Request("get", "http", id, EmptyBody, NoQuery) EXCEPT !.pc = "find"], FALSE)
  /\ UNCHANGED users

\* await User.findById(userId) resolves.
GetFind(r) ==
  /\ reqs[r].op = "get" /\ reqs[r].pc = "find"
  /\ LET rq == [reqs[r] EXCEPT !.acc = @ + 1]
     IN  Commit(r, IF notFound(rq.id)
                     THEN Done(rq, errorHandler(NotFoundError))
                     ELSE Done(rq, getUserByIdController(Doc(rq.id))), FALSE)
  /\ UNCHANGED users

\* ---------------------------------------------------------- softDeleteUser
\* Saves of one record stay below MaxVersion: those done plus those under way.
Mutators(id) ==
  Cardinality({s \in Slots : reqs[s].op \in {"update", "delete"} /\ reqs[s].id = id})
MayMutate(id) == id \in Ids => users[id].version + Mutators(id) < MaxVersion

StartDelete(r, id) ==
  /\ Free(r)
  /\ MayMutate(id)
  /\ Commit(r, [Request("delete", "http", id, EmptyBody, NoQuery) EXCEPT !.pc = "find"], FALSE)
  /\ UNCHANGED users

\* await User.findById(userId) resolves.
DeleteFind(r) ==
  /\ reqs[r].op = "delete" /\ reqs[r].pc = "find"
  /\ LET rq == [reqs[r] EXCEPT !.acc = @ + 1]
     IN  Commit(r, IF notFound(rq.id)
                     THEN Done(rq, errorHandler(NotFoundError))
                     ELSE [rq EXCEPT !.pc = "save", !.doc = Doc(rq.id)], FALSE)
  /\ UNCHANGED users

\* userSchema.pre('save'): the loaded document's version goes up by one
\* unless the document is new.
preSave(doc, isNew) == IF isNew THEN doc ELSE [doc EXCEPT !.version = @ + 1]

\* A save that reaches the store with nothing to set.
writeNothing(stored, doc, paths) == stored

\* A save that replaces the stored document by the one in memory.
writeDocument(stored, doc, paths) == [k \in DOMAIN stored |-> doc[k]]

\* save() of a loaded document writes its modified paths: $set on _id.
writePaths(stored, doc, paths) ==
  [k \in DOMAIN stored |-> IF k \in paths THEN doc[k] ELSE stored[k]]

\* user.isDeleted = true; await user.save() resolves.
DeleteSave(r) ==
  /\ reqs[r].op = "delete" /\ reqs[r].pc = "save"
  /\ LET rq == [reqs[r] EXCEPT !.acc = @ + 1]
         doc == preSave([rq.doc EXCEPT !.isDeleted = TRUE], FALSE)
     IN  /\ users' = [users EXCEPT ![rq.id] = writePaths(@, doc, {"isDeleted", "version"})]
         /\ Commit(r, Done([rq EXCEPT !.doc = doc], deleteUserController), TRUE)

\* ------------------------------------------------------------ updateUser
\* A service without the immutability check.
withoutImmutableGuard(updateData) == FALSE
\* updateUser's first statement: 'aadhaar' in updateData || 'pan' in updateData
immutableGuard(updateData) == Has(updateData, "aadhaar") \/ Has(updateData, "pan")

\* PUT /users/:id arrives (validate(updateUserSchema), controller, service),
\* or the service is called as the unit tests call it.  Up to the first await.
StartUpdate(r, via, id, body) ==
  /\ Free(r)
  /\ MayMutate(id)
  /\ LET rq == Request("update", via, id, body, NoQuery)
         invalid == IF via = "http"
                      THEN validate("PUT", updateUserSchema(body), body)
                      ELSE NoError
         error == IF invalid # NoError THEN invalid
                  ELSE IF immutableGuard(body) THEN BadRequestError
                  ELSE NoError
     IN  Commit(r, IF error # NoError THEN Done(rq, errorHandler(error))
                   ELSE [rq EXCEPT !.pc = "find"], FALSE)
  /\ UNCHANGED users

\* await User.findById(userId) resolves; the not-found and deleted checks and
\* the test that decides whether the email is looked up follow.
UpdateFind(r) ==
  /\ reqs[r].op = "update" /\ reqs[r].pc = "find"
  /\ LET rq == [reqs[r] EXCEPT !.acc = @ + 1]
     IN  Commit(r, IF notFound(rq.id)
                     THEN Done(rq, errorHandler(NotFoundError))
                   ELSE IF Truthy(rq.body, "email") /\ rq.body.email # users[rq.id].email
                     THEN [rq EXCEPT !.pc = "emailcheck", !.doc = Doc(rq.id)]
                   ELSE [rq EXCEPT !.pc = "save", !.doc = Doc(rq.id)], FALSE)
  /\ UNCHANGED users

\* await User.findOne({ email }).lean() resolves.
UpdateEmailCheck(r) ==
  /\ reqs[r].op = "update" /\ reqs[r].pc = "emailcheck"
  /\ LET rq == [reqs[r] EXCEPT !.acc = @ + 1]
     IN  Commit(r, IF findOneByEmail(rq.body.email) # {}
                     THEN Done(rq, errorHandler(ConflictError("email")))
                     ELSE [rq EXCEPT !.pc = "save"], FALSE)
  /\ UNCHANGED users

\* Object.assign(user, updateData): each key set through its setter.
assign(doc, updateData) ==
  [k \in DOMAIN doc |->
     IF k \in DOMAIN updateData THEN castPath(k, updateData[k]) ELSE doc[k]]
\* The paths whose value the assignment changed.
modifiedPaths(doc, updateData) ==
  {k \in DOMAIN updateData \cap DOMAIN doc : castPath(k, updateData[k]) # doc[k]}

\* Object.assign(user, updateData); await user.save() resolves: the
\* validation error of a modified path, or the $set of the modified paths and
\* the version, or E11000 from a unique index.
UpdateSave(r) ==
  /\ reqs[r].op = "update" /\ reqs[r].pc = "save"
  /\ LET rq == [reqs[r] EXCEPT !.acc = @ + 1]
         paths == modifiedPaths(rq.doc, rq.body) \cup {"version"}
         doc == preSave(assign(rq.doc, rq.body), FALSE)
         invalid == schemaValidate(doc) \cap paths
         dup == uniqueViolations(doc, rq.id) \cap paths
     IN  IF invalid # {}
           THEN /\ Commit(r, Done(rq, errorHandler(MongooseValidationError(invalid))), FALSE)
                /\ UNCHANGED users
         ELSE IF dup # {}
           THEN /\ \E f \in dup : Commit(r, Done(rq, errorHandler(MongoServerError(f))), FALSE)
                /\ UNCHANGED users
           ELSE /\ users' = [users EXCEPT ![rq.id] = writePaths(@, doc, paths)]
                /\ Commit(r, Done([rq EXCEPT !.doc = doc],
                                  IF rq.via = "http" THEN updateUserController(doc)
                                  ELSE ServiceReturn(doc)), TRUE)

\* --------------------------------------------------- getAllUsers (listing)
RECURSIVE Descending(_)
\* The ids of S, newest first: sort('-createdAt'), the default sort.
Descending(S) ==
  IF S = {} THEN <<>>
  ELSE LET m == CHOOSE x \in S : \A y \in S : y <= x
       IN  <<m>> \o Descending(S \ {m})
RECURSIVE Ascending(_)
\* The ids of S in insertion order: the order of a find without a sort.
Ascending(S) ==
  IF S = {} THEN <<>>
  ELSE LET m == CHOOSE x \in S : \A y \in S : y >= x
       IN  Ascending(S \ {m}) \o <<m>>

\* .skip(skip).limit(limit) on a result list
Page(ids, skip, limit) == SubSeq(ids, skip + 1, Min(Len(ids), skip + limit))

\* User.find(): the ids the listing's find matches (the pre-find hook applies).
findAll == {i \in Ids : matchesIsDeleted(preFind("undefined"), users[i])}
\* User.countDocuments(): a count is no find, the hook does not run.
countAll == Cardinality({i \in Ids : matchesIsDeleted("undefined", users[i])})

\* users.map(user => new User(user).maskSensitiveData())
maskAll(ids) == [n \in 1..Len(ids) |-> maskSensitiveData(Doc(ids[n]))]

\* Both queries of Promise.all resolved: the listing's value, sent by the
\* controller with successWithMeta.
Listed(rq) ==
  IF rq.rowsDone /\ rq.totalDone
    THEN LET p == parsePaginationParams(rq.query)
         IN  Done(rq, Success(200, rq.rows, generateMeta(p.page, p.limit, rq.total)))
    ELSE rq

StartList(r, page, limit) ==
  /\ Free(r)
  /\ Commit(r, [Request("list", "http", 0, EmptyBody,
                        [page |-> page, limit |-> limit, q |-> NoTerm])
                  EXCEPT !.pc = "query"], FALSE)
  /\ UNCHANGED users

\* User.find().sort(sort).skip(skip).limit(limit).lean() resolves.
ListFind(r) ==
  /\ reqs[r].op = "list" /\ reqs[r].pc = "query" /\ ~reqs[r].rowsDone
  /\ LET p == parsePaginationParams(reqs[r].query)
         ids == Page(Descending(findAll), calculateSkip(p.page, p.limit), p.limit)
     IN  Commit(r, Listed([reqs[r] EXCEPT !.acc = @ + 1, !.rows = maskAll(ids),
                                          !.rowsDone = TRUE]), FALSE)
  /\ UNCHANGED users

\* User.countDocuments() resolves.
ListCount(r) ==
  /\ reqs[r].op = "list" /\ reqs[r].pc = "query" /\ ~reqs[r].totalDone
  /\ Commit(r, Listed([reqs[r] EXCEPT !.acc = @ + 1, !.total = countAll,
                                       !.totalDone = TRUE]), FALSE)
  /\ UNCHANGED users

\* ------------------------------------------------------------ searchUsers
\* {$regex: searchQuery, $options: 'i'} on a string, for a pattern of literal
\* characters and ".": the pattern matches somewhere in the string.
regexMatch(pattern, str) ==
  \E off \in 0..(Len(str) - Len(pattern)) :
    \A j \in 1..Len(pattern) :
      pattern[j] = "." \/ toLowerChar(pattern[j]) = toLowerChar(str[off + j])

\* The ids matched by {isDeleted: false, $or: [{name: regex}, {email: regex}]}.
searchMatches(q, isDeletedCond) ==
  {i \in Ids :
     /\ matchesIsDeleted(isDeletedCond, users[i])
     /\ (regexMatch(q, users[i].name) \/ regexMatch(q, users[i].email))}

\* A controller that tests q against undefined only.
termUndefined(q) == q.kind = "absent"
\* !q || typeof q !== 'string'
termMissing(q) == q.kind # "string" \/ q.val = <<>>

\* GET /users/search arrives; the controller answers 400 itself when q is
\* missing, empty or no string.
StartSearch(r, q, page, limit) ==
  /\ Free(r)
  /\ LET rq == Request("search", "http", 0, EmptyBody,
                       [page |-> page, limit |-> limit, q |-> q])
     IN  Commit(r, IF termMissing(q)
                     THEN Done(rq, Response(400, "BadRequest", {"q"}, <<>>, NoMeta))
                     ELSE [rq EXCEPT !.pc = "query"], FALSE)
  /\ UNCHANGED users

\* User.find(searchFilter).skip(skip).limit(limit).lean() resolves.
SearchFind(r) ==
  /\ reqs[r].op = "search" /\ reqs[r].pc = "query" /\ ~reqs[r].rowsDone
  /\ LET p == parsePaginationParams(reqs[r].query)
         ids == Page(Ascending(searchMatches(reqs[r].query.q.val, preFind("false"))),
                     calculateSkip(p.page, p.limit), p.limit)
     IN  Commit(r, Listed([reqs[r] EXCEPT !.acc = @ + 1, !.rows = maskAll(ids),
                                          !.rowsDone = TRUE]), FALSE)
  /\ UNCHANGED users

\* User.countDocuments(searchFilter) resolves.
SearchCount(r) ==
  /\ reqs[r].op = "search" /\ reqs[r].pc = "query" /\ ~reqs[r].totalDone
  /\ Commit(r, Listed([reqs[r] EXCEPT
                         !.acc = @ + 1,
                         !.total = Cardinality(searchMatches(reqs[r].query.q.val, "false")),
                         !.totalDone = TRUE]), FALSE)
  /\ UNCHANGED users

\* ---------------------------------------------------------- specification
Init ==
  /\ users = <<>>
  /\ reqs = [r \in Slots |-> Idle]
  /\ sent = Idle

UserIds == 1..MaxUsers
QueryInts == {Absent, NotANumber} \cup {IntParam(n) : n \in 0..MaxQueryInt}

\* The steps of each operation, for the payloads a specification draws from.
CreateSteps(r, bodies) ==
  \/ \E body \in bodies : StartCreate(r, body)
  \/ CreatePrecheck(r)
  \/ CreateSave(r)
GetSteps(r) ==
  \/ \E id \in UserIds : StartGet(r, id)
  \/ GetFind(r)
DeleteSteps(r) ==
  \/ \E id \in UserIds : StartDelete(r, id)
  \/ DeleteFind(r)
  \/ DeleteSave(r)
UpdateSteps(r, calls) ==
  \/ \E c \in calls, id \in UserIds : StartUpdate(r, c[1], id, c[2])
  \/ UpdateFind(r)
  \/ UpdateEmailCheck(r)
  \/ UpdateSave(r)
ListSteps(r, pages, limits) ==
  \/ \E page \in pages, limit \in limits : StartList(r, page, limit)
  \/ ListFind(r)
  \/ ListCount(r)
SearchSteps(r, terms, pages, limits) ==
  \/ \E q \in terms, page \in pages, limit \in limits : StartSearch(r, q, page, limit)
  \/ SearchFind(r)
  \/ SearchCount(r)

FewBodies ==
  {Body(EmailLower, Aadhaar1, Pan1), Body(EmailOther, Aadhaar2, Pan2),
   Body(EmailUpper, Aadhaar2, Pan2)}
FewCalls ==
  {<<"http", [email |-> EmailOther]>>, <<"http", [aadhaar |-> Aadhaar2]>>,
   <<"service", [pan |-> Pan2]>>}

\* Every operation, concurrently.
Next ==
  \E r \in Slots :
    \/ CreateSteps(r, FewBodies)
    \/ GetSteps(r)
    \/ DeleteSteps(r)
    \/ UpdateSteps(r, FewCalls)
    \/ ListSteps(r, {Absent}, {IntParam(1)})
    \/ SearchSteps(r, {Term(<<"j">>), Term(<<>>)}, {Absent}, {Absent})

Spec == Init /\ [][Next]_vars

\* The write path alone, concurrently, with every create payload and the
\* update calls that carry an email, an aadhaar or a pan.
WriteCalls ==
  ({"http"} \X {[email |-> EmailOther], [aadhaar |-> Aadhaar2],
                [aadhaar |-> <<>>], [pan |-> Pan2]})
    \cup {<<"service", [aadhaar |-> Aadhaar2]>>, <<"service", [pan |-> Pan2]>>}
NextWrite ==
  \E r \in Slots :
    \/ CreateSteps(r, CreateBodies)
    \/ DeleteSteps(r)
    \/ UpdateSteps(r, WriteCalls)
SpecWrite == Init /\ [][NextWrite]_vars

\* Creates, soft-deletes and listings one request at a time, with every
\* page and limit.
NextSeq ==
  \E r \in Slots :
    /\ \A s \in Slots \ {r} : ~Busy(s)
    /\ \/ CreateSteps(r, FewBodies)
       \/ DeleteSteps(r)
       \/ ListSteps(r, QueryInts, QueryInts)
SpecSeq == Init /\ [][NextSeq]_vars

\* parsePaginationParams alone: a query is drawn, the function is applied and
\* its result is recorded in meta.page and meta.limit.
PageInputs ==
  {Absent, NotANumber} \cup {IntParam(n) : n \in {-5, -1, 0, 1, 2, 100, 101, 500}}
InitPage ==
  /\ users = <<>>
  /\ reqs = [r \in Slots |-> Idle]
  /\ \E page \in PageInputs, limit \in PageInputs :
       sent = Request("parse", "none", 0, EmptyBody,
                      [page |-> page, limit |-> limit, q |-> NoTerm])
ParsePagination ==
  /\ sent.op = "parse" /\ sent.pc = "start"
  /\ LET p == parsePaginationParams(sent.query)
     IN  sent' = Done(sent, Success(200, <<>>,
                   [NoMeta EXCEPT !.page = p.page, !.limit = p.limit]))
  /\ UNCHANGED <<users, reqs>>
SpecPage == InitPage /\ [][ParsePagination]_vars

\* maskSensitiveData alone: a stored document is drawn, the method is applied
\* to it and what it returns is recorded as the data sent.
StoredDocs ==
  [name : {Name1, Name2}, email : {EmailLower, EmailOther},
   aadhaar : {Aadhaar1, Aadhaar2}, pan : {Pan1, Pan2},
   isDeleted : BOOLEAN, version : 0..MaxVersion]
InitMask ==
  /\ users \in {<<d>> : d \in StoredDocs}
  /\ reqs = [r \in Slots |-> Idle]
  /\ sent = [Idle EXCEPT !.op = "mask", !.pc = "start", !.id = 1]
MaskDocument ==
  /\ sent.op = "mask" /\ sent.pc = "start"
  /\ sent' = Done(sent, Success(200, <<maskSensitiveData(Doc(sent.id))>>, NoMeta))
  /\ UNCHANGED <<users, reqs>>
SpecMask == InitMask /\ [][MaskDocument]_vars

\* Creates and soft-deletes, concurrently, with the create payloads and one
\* more that shares its email, up to letter case, and its aadhaar with the
\* first payload.
ConflictBodies == CreateBodies \cup {Body(EmailUpper, Aadhaar1, Pan2)}
NextCreate ==
  \E r \in Slots :
    \/ CreateSteps(r, ConflictBodies)
    \/ DeleteSteps(r)
SpecCreate == Init /\ [][NextCreate]_vars

\* Creates, soft-deletes and searches one request at a time, with terms of
\* letters in either case, a term with a regular-expression metacharacter,
\* and no usable term.
SearchTerms ==
  {Term(<<"j">>), Term(<<"O">>), Term(<<"j", ".">>), Term(<<>>), NoTerm, TermArray}
NextSearch ==
  \E r \in Slots :
    /\ \A s \in Slots \ {r} : ~Busy(s)
    /\ \/ CreateSteps(r, FewBodies)
       \/ DeleteSteps(r)
       \/ SearchSteps(r, SearchTerms, {Absent, IntParam(2)}, {Absent, IntParam(1)})
SpecSearch == Init /\ [][NextSearch]_vars

\* Creates, soft-deletes and updates of the email one request at a time: the
\* patches carry the first payload's email as stored, the same in another
\* letter case, and the second payload's email.
EmailCalls ==
  {"http"} \X {[email |-> EmailLower], [email |-> EmailUpper], [email |-> EmailOther]}
NextEmail ==
  \E r \in Slots :
    /\ \A s \in Slots \ {r} : ~Busy(s)
    /\ \/ CreateSteps(r, FewBodies)
       \/ DeleteSteps(r)
       \/ UpdateSteps(r, EmailCalls)
SpecEmail == Init /\ [][NextEmail]_vars

\* parseSortParam alone: a sort parameter is drawn, the function is applied
\* and the sort string it returns is recorded as the data sent.
SortInputs ==
  {NoSort} \cup
  { SortParam(p \o f) :
      p \in {<<>>, <<"-">>, <<"-", "-">>, <<"+">>, <<" ">>},
      f \in allowedFields \cup
              {<<>>, <<"N", "a", "m", "e">>, <<"p", "a", "n">>, <<"_", "i", "d">>,
               <<"v", "e", "r", "s", "i", "o", "n">>, <<"n", "a", "m", "e", "s">>} }
InitSort ==
  /\ users = <<>>
  /\ reqs = [r \in Slots |-> Idle]
  /\ \E sort \in SortInputs :
       sent = [Idle EXCEPT !.op = "sort", !.pc = "start",
                           !.query = [page |-> Absent, limit |-> Absent,
                                      q |-> NoTerm, sort |-> sort]]
ParseSort ==
  /\ sent.op = "sort" /\ sent.pc = "start"
  /\ sent' = Done(sent, Success(200, <<parseSortParam(sent.query.sort)>>, NoMeta))
  /\ UNCHANGED <<users, reqs>>
SpecSort == InitSort /\ [][ParseSort]_vars

\* Creates alone, from payloads whose name, email and pan differ from a valid
\* payload by blanks and letter case only.
NormBodies ==
  { [name |-> n, email |-> e, aadhaar |-> a, pan |-> p] :
      n \in {Name1, <<" ", "J">>, <<" ", "J", "o", " ">>,
             Name1 \o [i \in 1..99 |-> " "]},
      e \in {EmailLower, EmailUpper, <<" ">> \o EmailLower},
      a \in {Aadhaar1, Aadhaar2},
      p \in {Pan1, toLowerCase(Pan1)} }
SpecNormalize == Init /\ [][\E r \in Slots : CreateSteps(r, NormBodies)]_vars

\* Creates, soft-deletes and PUT requests one request at a time: the patches
\* carry a key the update schema does not list, alone or next to a listed
\* one, an immutable key, or listed keys only.
PatchCalls ==
  {"http"} \X {[isDeleted |-> FALSE], [isDeleted |-> TRUE], [version |-> 0],
               [name |-> Name2, version |-> 2], [name |-> Name2, isDeleted |-> FALSE],
               [pan |-> Pan2], [aadhaar |-> Aadhaar2],
               [name |-> Name2], [email |-> EmailOther]}
NextPatch ==
  \E r \in Slots :
    /\ \A s \in Slots \ {r} : ~Busy(s)
    /\ \/ CreateSteps(r, FewBodies)
       \/ DeleteSteps(r)
       \/ UpdateSteps(r, PatchCalls)
SpecPatch == Init /\ [][NextPatch]_vars

\* Creates alone, from payloads that break the rules of several fields at
\* once: fields missing, fields malformed, and a name that is too short once
\* trimmed next to a malformed aadhaar.
InvalidBodies ==
  FewBodies \cup
  {[name |-> Name1],
   [email |-> <<"a", "@">>, pan |-> Pan1],
   [name |-> <<"J">>, email |-> <<"a", "@">>, aadhaar |-> ShortAadhaar, pan |-> <<"P">>],
   [name |-> Name1, email |-> EmailLower, aadhaar |-> ShortAadhaar, pan |-> <<"P">>],
   [name |-> <<" ", "J">>, email |-> EmailLower, aadhaar |-> ShortAadhaar, pan |-> Pan1],
   [name |-> <<" ", "J">>, email |-> EmailLower, aadhaar |-> Aadhaar1, pan |-> Pan1]}
SpecInvalid == Init /\ [][\E r \in Slots : CreateSteps(r, InvalidBodies)]_vars

\* Creates alone, from valid payloads, bare and with the keys version and
\* isDeleted next to the required fields.
ExtraBodies ==
  { body @@ extra :
      body \in FewBodies,
      extra \in {<<>>, [version |-> 2], [isDeleted |-> TRUE],
                 [version |-> 1, isDeleted |-> FALSE]} }
SpecExtra == Init /\ [][\E r \in Slots : CreateSteps(r, ExtraBodies)]_vars

\* Creates of two payloads, soft-deletes and updates, concurrently: the patches
\* are empty or carry the name or the email.
FrameCalls ==
  {"http"} \X {<<>>, [name |-> Name2], [email |-> EmailUpper]}
SpecFrame ==
  Init /\ [][\E r \in Slots :
                \/ CreateSteps(r, {Body(EmailLower, Aadhaar1, Pan1),
                                   Body(EmailOther, Aadhaar2, Pan2)})
                \/ DeleteSteps(r)
                \/ UpdateSteps(r, FrameCalls)]_vars

\* Creates, soft-deletes and updates, concurrently: the patches would clear
\* isDeleted, sent to the route and passed to the service, or carry the name
\* or the email.
SpecRestore ==
  Init /\ [][\E r \in Slots :
                \/ CreateSteps(r, {Body(EmailLower, Aadhaar1, Pan1),
                                   Body(EmailLower, Aadhaar1, Pan1) @@ [isDeleted |-> TRUE]})
                \/ DeleteSteps(r)
                \/ UpdateSteps(r, {<<"http", [isDeleted |-> FALSE]>>,
                                   <<"service", [isDeleted |-> FALSE]>>,
                                   <<"service", [name |-> Name2]>>,
                                   <<"http", [email |-> EmailOther]>>})]_vars

\* ------------------------------------------------------------ properties
Live == {i \in Ids : ~users[i].isDeleted}
Rows == sent.res.data

\* C1: in every reachable state no two distinct stored records, soft-deleted
\* or not, have the same email, the same aadhaar or the same pan.
C1_UniqueIdentity ==
  \A i, j \in Ids :
    i # j => /\ users[i].email # users[j].email
             /\ users[i].aadhaar # users[j].aadhaar
             /\ users[i].pan # users[j].pan
\* An update's write of an email held by a soft-deleted record, which the
\* email lookup did not see, has just been rejected by the index.
C1_Witness ==
  /\ sent.op = "update" /\ sent.res.error = "MongoServerError"
  /\ \E i \in Ids \ {sent.id} :
       users[i].isDeleted /\ users[i].email = castPath("email", sent.body.email)

\* C2: a create whose email, aadhaar or pan is that of a soft-deleted record
\* when the create reaches the store ends in a 409 conflict that names a
\* field on which the payload collides, and inserts no record.
C2_DeletedIdentityReserved ==
  (sent.op = "create" /\ sent.delColl # {}) =>
    /\ sent.res.status = 409
    /\ sent.res.error \in {"ConflictError", "MongoServerError"}
    /\ sent.res.fields # {} /\ sent.res.fields \subseteq sent.coll
    /\ sent.ins = 0
\* The payload collides with a soft-deleted record only: the pre-check saw
\* nothing and the insert was rejected.
C2_Witness ==
  /\ sent.op = "create" /\ sent.delColl # {} /\ sent.delColl = sent.coll
  /\ sent.acc = 2 /\ sent.res.status = 409

\* C3: of two creates with the same email that both passed the pre-check
\* before either wrote, the one that saves after the other stored its record,
\* which still holds that email, is rejected by the unique index, ends in a
\* 409 conflict and stores nothing.
C3_RaceCaughtByIndex ==
  (sent.op = "create" /\ sent.raced /\ sent.lost /\ "email" \in sent.coll) =>
    /\ sent.res.status = 409
    /\ sent.res.error = "MongoServerError"
    /\ sent.ins = 0
\* The loser of such a race has just been answered, and the winner's record
\* is the only one with that email.
C3_Witness ==
  /\ sent.op = "create" /\ sent.raced /\ sent.lost /\ "email" \in sent.coll
  /\ Cardinality({i \in Ids : users[i].email = castPath("email", sent.body.email)}) = 1

\* C4: no step changes the stored aadhaar or pan of a record: in every state
\* after its creation they are the values written at creation.
C4_IdentityImmutable ==
  [][\A i \in Ids : /\ users'[i].aadhaar = users[i].aadhaar
                    /\ users'[i].pan = users[i].pan]_vars
\* An update has just written a record, whose email and version changed.
C4_Witness ==
  /\ sent.op = "update" /\ sent.res.status = 200
  /\ users[sent.id].version > 0
  /\ users[sent.id].email = castPath("email", sent.body.email)

\* C5: an update whose patch contains the key aadhaar or pan, whatever the
\* value, ends in a 400 that names the field, having made no store operation,
\* and the step that answers it leaves the store as it was.
C5_ImmutablePatchRejected ==
  [][(sent'.op = "update" /\ (Has(sent'.body, "aadhaar") \/ Has(sent'.body, "pan"))) =>
       /\ sent'.res.status = 400
       /\ sent'.res.fields \cap {"aadhaar", "pan"} # {}
       /\ sent'.acc = 0
       /\ users' = users]_vars
\* A patch carrying the aadhaar the record already has was rejected.
C5_Witness ==
  /\ sent.op = "update" /\ Has(sent.body, "aadhaar") /\ sent.id \in Ids
  /\ sent.body.aadhaar = users[sent.id].aadhaar
  /\ sent.res.status = 400

\* C6: a get of a record that was soft-deleted when the request arrived ends
\* in NotFoundError; no row of a list or search result has isDeleted true,
\* nor, when no write ran during the request, is its record soft-deleted.
C6_DeletedInvisible ==
  /\ (sent.op = "get" /\ sent.gone) =>
       sent.res.status = 404 /\ sent.res.error = "NotFoundError"
  /\ sent.op \in {"list", "search"} =>
       \A n \in 1..Len(Rows) :
         /\ ~Rows[n].isDeleted
         /\ ~sent.dirty => ~users[Rows[n].id].isDeleted
\* A listing returned the one live record while the newer record is
\* soft-deleted.
C6_Witness ==
  /\ sent.op = "list" /\ ~sent.dirty /\ Len(Rows) = 1
  /\ \E i \in Ids : users[i].isDeleted /\ i > Rows[1].id

\* C7: with one request at a time, the meta.total of a listing is the number
\* of records whose isDeleted is false.
C7_TotalCountsLive ==
  sent.op = "list" => sent.res.meta.total = Cardinality(Live)

\* C8: with one request at a time, for page p >= 1 and page size s in 1..100
\* over N non-deleted records, a listing returns min(s, max(0, N - (p-1)*s))
\* rows, totalPages = ceil(total/s), hasNext = (p < totalPages) and
\* hasPrev = (p > 1), total being the N of C7.
C8_PageArithmetic ==
  (/\ sent.op = "list"
   /\ sent.query.page.kind = "int" /\ sent.query.page.val >= 1
   /\ sent.query.limit.kind = "int" /\ sent.query.limit.val \in 1..100) =>
    LET p == sent.query.page.val
        s == sent.query.limit.val
        N == Cardinality(Live)
    IN  /\ Len(Rows) = Min(s, Max(0, N - (p - 1) * s))
        /\ sent.res.meta.totalPages = Ceil(N, s)
        /\ sent.res.meta.hasNext = (p < Ceil(N, s))
        /\ sent.res.meta.hasPrev = (p > 1)

\* C9: the effective page is 1 when the requested page is absent, no number
\* or not positive, and the request otherwise; the effective page size is 10
\* when absent or no number and min(100, max(1, requested)) for every integer.
C9_EffectivePaging ==
  (sent.op = "parse" /\ sent.pc = "done") =>
    /\ sent.res.meta.page =
         (IF sent.query.page.kind = "int" /\ sent.query.page.val > 0
            THEN sent.query.page.val ELSE 1)
    /\ sent.res.meta.limit =
         (IF sent.query.limit.kind = "int"
            THEN Min(100, Max(1, sent.query.limit.val)) ELSE 10)

\* C10: every record in a response to create, update, get, list or search is
\* the masked projection: its aadhaar and pan keep the last four characters
\* of the stored value behind a mask and are not the stored value.
Masked(shown, stored) ==
  /\ shown # stored
  /\ Len(shown) >= 4 /\ Len(stored) >= 4
  /\ SubSeq(shown, Len(shown) - 3, Len(shown)) = SubSeq(stored, Len(stored) - 3, Len(stored))
  /\ \A k \in 1..(Len(shown) - 4) : shown[k] \in {"X", "-"}
C10_ResponsesMasked ==
  (sent.via = "http" /\ sent.op \in {"create", "update", "get", "list", "search"}) =>
    \A n \in 1..Len(Rows) :
      /\ Masked(Rows[n].aadhaar, users[Rows[n].id].aadhaar)
      /\ Masked(Rows[n].pan, users[Rows[n].id].pan)
\* A search has returned a record.
C10_Witness ==
  sent.op = "search" /\ sent.res.status = 200 /\ Len(Rows) >= 1

C12_VersionCountsMutations ==
  [][\A i \in 1..Len(users') :
       IF i > Len(users)
         THEN users'[i].version = 0
         ELSE users'[i].version = users[i].version +
                (IF /\ sent'.op \in {"update", "delete"}
                    /\ sent'.res.status = 200 /\ sent'.id = i
                   THEN 1 ELSE 0)]_vars

\* C13: under any interleaving of updates and soft-deletes the stored version
\* of a record never decreases from one state to the next.
C13_VersionMonotonic ==
  [][\A i \in Ids : users'[i].version >= users[i].version]_vars

\* C14: an update (with a patch of mutable fields) or a soft-delete of an id
\* that has no record, or whose record was soft-deleted when the request
\* arrived, ends in NotFoundError after one lookup and the step that answers
\* it leaves every stored record, version included, as it was.
C14_MissingIsNotFound ==
  [][(/\ sent'.op \in {"update", "delete"}
      /\ DOMAIN sent'.body \subseteq {"name", "email"}
      /\ (sent'.id \notin Ids \/ sent'.gone)) =>
       /\ sent'.res.status = 404 /\ sent'.res.error = "NotFoundError"
       /\ sent'.acc = 1
       /\ users' = users]_vars
\* A soft-delete of a record that was already soft-deleted has been answered.
C14_Witness ==
  /\ sent.op = "delete" /\ sent.gone /\ sent.res.status = 404
  /\ users[sent.id].isDeleted

\* C15: a create whose payload collides with stored records on more than one
\* of email, aadhaar and pan ends in a conflict that names the first colliding
\* field in the order email, aadhaar, pan.
C15_ConflictPriority ==
  (sent.op = "create" /\ Cardinality(sent.coll) >= 2) =>
    /\ sent.res.status = 409
    /\ sent.res.fields =
         {IF "email" \in sent.coll THEN "email"
          ELSE IF "aadhaar" \in sent.coll THEN "aadhaar" ELSE "pan"}

\* C16: a create whose payload collides with a stored record on exactly one
\* field (the email up to letter case, the aadhaar, or the pan) ends in a 409
\* conflict that names that field, and stores nothing.
C16_DuplicateNamed ==
  (sent.op = "create" /\ Cardinality(sent.coll) = 1) =>
    /\ sent.res.status = 409
    /\ sent.res.error \in {"ConflictError", "MongoServerError"}
    /\ sent.res.fields = sent.coll
    /\ sent.ins = 0
\* A payload whose email is that of a live record in another letter case,
\* and nothing else of it, has been rejected.
C16_Witness ==
  /\ sent.op = "create" /\ sent.coll = {"email"} /\ sent.delColl = {}
  /\ sent.res.status = 409
  /\ \E i \in Ids : users[i].email # sent.body.email
                    /\ users[i].email = toLowerCase(sent.body.email)

\* C17: a search considers exactly the records that are not soft-deleted and
\* whose name or email contains the term as a case-insensitive substring:
\* every returned record is one of them and meta.total is their number.
Contains(str, term) ==
  \E off \in 0..(Len(str) - Len(term)) :
    \A j \in 1..Len(term) : toLowerChar(str[off + j]) = toLowerChar(term[j])
C17_SearchIsSubstring ==
  (sent.op = "search" /\ sent.res.status = 200) =>
    LET term == sent.query.q.val
        hits == {i \in Live : Contains(users[i].name, term) \/ Contains(users[i].email, term)}
    IN  /\ \A n \in 1..Len(Rows) : Rows[n].id \in hits
        /\ sent.res.meta.total = Cardinality(hits)

\* C18: a search whose term is missing, empty or not a single string is
\* answered 400 without any store query.
C18_TermRequired ==
  (sent.op = "search" /\ (sent.query.q.kind # "string" \/ sent.query.q.val = <<>>)) =>
    /\ sent.res.status = 400
    /\ Rows = <<>>
    /\ sent.acc = 0
\* A search with q given twice, over a store that holds a record, was refused.
C18_Witness ==
  /\ sent.op = "search" /\ sent.query.q.kind = "array"
  /\ sent.res.status = 400 /\ Live # {}

\* C19: an update of a stored, not soft-deleted record whose patch email is,
\* after case normalization, the record's own stored email does not end in a
\* conflict; one whose patch email is held by another record, soft-deleted or
\* not, ends in a conflict and leaves the store as it was.
C19_EmailRecheck ==
  [][(/\ sent'.op = "update" /\ DOMAIN sent'.body = {"email"}
      /\ sent'.id \in Ids /\ ~users[sent'.id].isDeleted) =>
       LET email == toLowerCase(sent'.body.email)
       IN  /\ email = users[sent'.id].email => sent'.res.status # 409
           /\ (\E j \in Ids \ {sent'.id} : users[j].email = email) =>
                (sent'.res.status = 409 /\ users' = users)]_vars

\* C20: no step removes a record: the stored ids of one state are stored ids
\* of the next, and the step that answers a soft-delete with success leaves
\* the record in the store with isDeleted true.
C20_NeverErased ==
  [][/\ Ids \subseteq 1..Len(users')
     /\ (sent'.op = "delete" /\ sent'.res.status = 200) =>
          (sent'.id \in 1..Len(users') /\ users'[sent'.id].isDeleted)]_vars
\* A soft-delete has succeeded and both records created are in the store.
C20_Witness ==
  /\ sent.op = "delete" /\ sent.res.status = 200
  /\ Len(users) = MaxUsers /\ users[sent.id].isDeleted

\* C21: the sort string is the parameter itself when the parameter is a field
\* of the allow-list {createdAt, updatedAt, name, email}, with or without one
\* leading '-', and '-createdAt' for every other parameter and for none.
C21_SortAllowList ==
  (sent.op = "sort" /\ sent.pc = "done") =>
    LET given == sent.query.sort
        fields == {<<"c", "r", "e", "a", "t", "e", "d", "A", "t">>,
                   <<"u", "p", "d", "a", "t", "e", "d", "A", "t">>,
                   <<"n", "a", "m", "e">>, <<"e", "m", "a", "i", "l">>}
        allowed == given.kind = "string" /\
                   \E f \in fields : given.val = f \/ given.val = <<"-">> \o f
    IN  Rows[1] = IF allowed THEN given.val
                  ELSE <<"-", "c", "r", "e", "a", "t", "e", "d", "A", "t">>
\* A descending sort on an allowed field other than the default was kept.
C21_Witness ==
  /\ sent.op = "sort" /\ sent.pc = "done"
  /\ Rows[1] = <<"-", "e", "m", "a", "i", "l">>

\* C22: on create the checks see the normalized values: a payload whose
\* trimmed name has 2..100 characters, whose trimmed lower-cased email is
\* valid and whose upper-cased pan matches the pattern is not rejected as
\* invalid, and a payload whose trimmed name is shorter than 2 characters is
\* rejected with a validation error.
C22_NormalizedThenChecked ==
  (sent.op = "create" /\ sent.pc = "done") =>
    LET name == trim(sent.body.name)
        validAfter == /\ Len(name) >= 2 /\ Len(name) <= 100
                      /\ isEmail(toLowerCase(trim(sent.body.email)))
                      /\ isAadhaar(sent.body.aadhaar)
                      /\ isPan(toUpperCase(sent.body.pan))
    IN  /\ validAfter => sent.res.error \notin {"ZodError", "MongooseValidationError"}
        /\ Len(name) < 2 => sent.res.status = 400

\* C23: a PUT whose patch carries a key other than name and email, be it an
\* unknown key such as isDeleted or version or one of aadhaar and pan, ends in
\* the 400 of a validation failure, having made no store operation, and the
\* step that answers it leaves the store as it was.
C23_UnknownKeyRejected ==
  [][(sent'.op = "update" /\ sent'.via = "http" /\
      DOMAIN sent'.body \ {"name", "email"} # {}) =>
       /\ sent'.res.status = 400
       /\ sent'.res.error \in {"ValidationError", "ZodError"}
       /\ sent'.acc = 0
       /\ users' = users]_vars
\* A patch that would have restored a soft-deleted record was rejected.
C23_Witness ==
  /\ sent.op = "update" /\ sent.id \in Ids /\ users[sent.id].isDeleted
  /\ Has(sent.body, "isDeleted") /\ ~sent.body.isDeleted
  /\ sent.res.status = 400 /\ sent.res.fields = {"isDeleted"}

\* C24: a create whose payload breaks the rules of two fields or more (a
\* field missing, a name outside 2..100 characters once trimmed, an email
\* invalid once trimmed and lower-cased, an aadhaar that is not 12 digits, a
\* pan that does not match once upper-cased) ends in a 400 whose field list
\* contains every one of those fields, and the step stores nothing.
C24_EveryViolationListed ==
  [][sent'.op = "create" =>
       LET body == sent'.body
           violated ==
             {k \in {"name", "email", "aadhaar", "pan"} :
                \/ ~Has(body, k)
                \/ k = "name" /\ (Len(trim(body[k])) < 2 \/ Len(trim(body[k])) > 100)
                \/ k = "email" /\ ~isEmail(toLowerCase(trim(body[k])))
                \/ k = "aadhaar" /\ ~isAadhaar(body[k])
                \/ k = "pan" /\ ~isPan(toUpperCase(body[k]))}
       IN  Cardinality(violated) >= 2 =>
             /\ sent'.res.status = 400
             /\ violated \subseteq sent'.res.fields
             /\ users' = users]_vars

\* C25: the record a successful create stores has version 0 and isDeleted
\* false, whatever keys the accepted payload carries besides the required
\* fields.
C25_CreatedFresh ==
  [][(sent'.op = "create" /\ sent'.ins # 0) =>
       /\ Len(users') = Len(users) + 1 /\ sent'.ins = Len(users')
       /\ users'[sent'.ins].version = 0
       /\ ~users'[sent'.ins].isDeleted]_vars

\* C26: the step that answers an update with success changes, on the record
\* updated, no field but those named in the patch and the version, sets a
\* field it changes to the patch's value as normalized, and changes no other
\* record; with an empty patch it changes nothing but the version.  The step
\* that answers a soft-delete with success changes nothing but isDeleted and
\* version of the record deleted.
C26_FrameOfMutations ==
  [][(sent'.op \in {"update", "delete"} /\ sent'.res.status = 200) =>
       LET id == sent'.id
           named == IF sent'.op = "delete" THEN {"isDeleted"} ELSE DOMAIN sent'.body
           value(k) == IF sent'.op = "delete" THEN TRUE
                       ELSE IF k = "name" THEN trim(sent'.body[k])
                       ELSE IF k = "email" THEN trim(toLowerCase(sent'.body[k]))
                       ELSE sent'.body[k]
       IN  /\ id \in Ids /\ Len(users') = Len(users)
           /\ \A i \in Ids \ {id} : users'[i] = users[i]
           /\ \A k \in DOMAIN users[id] :
                \/ users'[id][k] = users[id][k]
                \/ k = "version"
                \/ k \in named /\ users'[id][k] = value(k)]_vars
\* An update with an empty patch has succeeded and raised the version.
C26_Witness ==
  /\ sent.op = "update" /\ sent.res.status = 200 /\ sent.body = <<>>
  /\ users[sent.id].version > 0

\* C27: the step that answers a create, an update or a soft-delete with an
\* error (400, 404, 409 or 500) leaves the store as it was, no record added
\* and no field of any record changed, and the request wrote nothing before.
C27_FailureWritesNothing ==
  [][(sent'.op \in {"create", "update", "delete"} /\ sent'.res.status >= 400) =>
       /\ users' = users
       /\ sent'.ins = 0]_vars
\* A create that lost the race for an email was rejected by the unique index
\* while the winner's record, and only that, is in the store.
C27_Witness ==
  /\ sent.op = "create" /\ sent.res.error = "MongoServerError" /\ sent.res.status = 409
  /\ Len(users) = 1

\* C28: of the soft-deletes of one record at most one is answered with
\* success: the step that answers a soft-delete with 200 finds the record
\* live and raises its version by 1, and a soft-delete that completes on a
\* record already soft-deleted ends in NotFoundError.
C28_OneDeleteSucceeds ==
  [][(sent'.op = "delete" /\ sent'.id \in Ids) =>
       IF users[sent'.id].isDeleted
         THEN sent'.res.status = 404 /\ sent'.res.error = "NotFoundError"
         ELSE sent'.res.status = 200 =>
                users'[sent'.id].version = users[sent'.id].version + 1]_vars

\* C29: no step that answers an update changes a field of a record that was
\* soft-deleted before the step, whenever the update read the record.
C29_NoUpdateAfterDelete ==
  [][\A i \in Ids :
       (sent'.op = "update" /\ users[i].isDeleted) => users'[i] = users[i]]_vars

\* C30: a stored record whose isDeleted is true has isDeleted true in the
\* next state, whatever step is taken.
C30_DeletedStaysDeleted ==
  [][\A i \in Ids : users[i].isDeleted => users'[i].isDeleted]_vars
\* An update asked to clear isDeleted, having read the record before its
\* soft-delete was written, has succeeded and the record is still deleted.
C30_Witness ==
  /\ sent.op = "update" /\ sent.res.status = 200
  /\ Has(sent.body, "isDeleted") /\ ~sent.body.isDeleted
  /\ users[sent.id].isDeleted

====
